---- MODULE Spec2Model ----
(***************************************************************************)
(* Model of the TRMNL Servarr collector (collector/trmnl_collector.py):    *)
(* the upstream API client, the app-type resolver, the field normalizers,  *)
(* the instance collector and the run orchestrator.                        *)
(*                                                                         *)
(* JSON values are tagged: a dict is [t |-> "dict", v |-> record], a list  *)
(* is [t |-> "list", v |-> sequence].  A key is present in a dict exactly  *)
(* when it is in the DOMAIN of the record.                                 *)
(***************************************************************************)
EXTENDS Integers, Sequences, FiniteSets, TLC

VARIABLES
    collectors,      \* run_collection argument: the configured instances
    api_version,     \* self.api_version of every collector
    idx,             \* position of the for loop of run_collection (1-based)
    pc,              \* position inside the current iteration
    app_type,        \* collect(): local app_type
    queue,           \* collect(): local queue
    calendar,        \* collect(): local calendar
    health,          \* collect(): local health
    stats,           \* collect(): local stats
    payload,         \* value returned by collect()
    exc,             \* exception in flight towards run_collection's handlers
    succeeded,       \* run_collection: succeeded
    failed,          \* run_collection: failed
    requests,        \* GET requests issued by the current collector this cycle
    attempts,        \* number of collect() calls made on every collector
    ret,             \* return value of run_collection
    fin,             \* input of the normalizer harness
    fout             \* result of the normalizer harness

vars == <<collectors, api_version, idx, pc, app_type, queue, calendar, health,
          stats, payload, exc, succeeded, failed, requests, attempts, ret,
          fin, fout>>

(***************************************************************************)
(* Python / JSON helpers                                                   *)
(***************************************************************************)
JDict(r) == [t |-> "dict", v |-> r]
JList(s) == [t |-> "list", v |-> s]
NoKeys == [k \in {} |-> 0]
EmptyDict == JDict(NoKeys)

\* Python truthiness of a JSON value ("if not data")
Truthy(j) == IF j.t = "list" THEN Len(j.v) > 0 ELSE DOMAIN j.v # {}

\* dict.get(key, default) on the record of a dict
Get(r, k, default) == IF k \in DOMAIN r THEN r[k] ELSE default

\* seq[:n]
Take(s, n) == SubSeq(s, 1, IF Len(s) < n THEN Len(s) ELSE n)

Min(a, b) == IF a < b THEN a ELSE b

\* str.lower() on the application names and forced types of the model
Lower(s) ==
    CASE s = "Sonarr"   -> "sonarr"
      [] s = "Radarr"   -> "radarr"
      [] s = "Lidarr"   -> "lidarr"
      [] s = "Readarr"  -> "readarr"
      [] s = "Prowlarr" -> "prowlarr"
      [] s = "PROWLARR" -> "prowlarr"
      [] s = "Whisparr" -> "whisparr"
      [] OTHER          -> s

\* str.capitalize() on the (lower-case) kinds of the model
Capitalize(s) ==
    CASE s = "sonarr"   -> "Sonarr"
      [] s = "radarr"   -> "Radarr"
      [] s = "lidarr"   -> "Lidarr"
      [] s = "readarr"  -> "Readarr"
      [] s = "prowlarr" -> "Prowlarr"
      [] s = "whisparr" -> "Whisparr"
      [] s = "plex"     -> "Plex"
      [] OTHER          -> s

(***************************************************************************)
(* Upstream API client                                                     *)
(***************************************************************************)
NoExc == [type |-> "None", msg |-> ""]
Raise(type, msg) == [type |-> type, msg |-> msg]

\* the outcome of a call: it returns a value or raises an exception
Returned(v) == [exc |-> NoExc, value |-> v]
Raised(e) == [exc |-> e, value |-> [k \in {} |-> 0]]

RECURSIVE FirstRaised(_)
\* the first exception raised by a sequence of _api_request outcomes
FirstRaised(rs) ==
    IF rs = << >> THEN NoExc
    ELSE IF Head(rs).exc.type # "None" THEN Head(rs).exc
    ELSE FirstRaised(Tail(rs))

\* What requests.get(...) / raise_for_status() / response.json() can do:
\*   [kind |-> "ok", data |-> J]                    2xx with a JSON body
\*   [kind |-> "ConnectionError", text |-> str(e)]  requests ConnectionError
\*   [kind |-> "Timeout"]                           requests Timeout
\*   [kind |-> "HTTPError", status |-> n]           raise_for_status failed
\*   [kind |-> "RequestException"]                  any other RequestException
Ok(data) == [kind |-> "ok", data |-> data]
ConnFailures == {[kind |-> "ConnectionError", text |-> "Name or service not known"],
                 [kind |-> "ConnectionError", text |-> "Connection refused"],
                 [kind |-> "ConnectionError", text |-> "Network is unreachable"]}
TimeoutFailure == [kind |-> "Timeout"]
AuthFailures == {[kind |-> "HTTPError", status |-> 401],
                 [kind |-> "HTTPError", status |-> 403]}
OtherHttpFailures == {[kind |-> "HTTPError", status |-> 404],
                      [kind |-> "HTTPError", status |-> 500]}
OtherFailure == [kind |-> "RequestException"]
Failures == ConnFailures \cup {TimeoutFailure} \cup AuthFailures
            \cup OtherHttpFailures \cup {OtherFailure}

\* one failure of every class, for the requests made in non-raising mode
DataFailures == {[kind |-> "ConnectionError", text |-> "Connection refused"],
                 TimeoutFailure, [kind |-> "HTTPError", status |-> 401],
                 [kind |-> "HTTPError", status |-> 500], OtherFailure}

\* _api_request with the raise_on_error test of its HTTPError branch lost:
\* a non-2xx status other than 401/403 is re-raised in both modes
ApiRequestReraising(resp, raise_on_error) ==
    IF resp.kind = "ok" THEN [exc |-> NoExc, data |-> resp.data]
    ELSE IF resp.kind = "HTTPError" /\ resp.status \notin {401, 403}
    THEN [exc |-> Raise("HTTPError", "HTTP " \o ToString(resp.status)), data |-> EmptyDict]
    ELSE IF ~raise_on_error THEN [exc |-> NoExc, data |-> EmptyDict]
    ELSE IF resp.kind = "HTTPError"
    THEN [exc |-> Raise("ServarrAuthenticationError",
                        "Authentication failed: Invalid API key (HTTP "
                          \o ToString(resp.status) \o ")"),
          data |-> EmptyDict]
    ELSE [exc |-> Raise("ServarrConnectionError", "Cannot connect"), data |-> EmptyDict]

\* _api_request: the pair (exception raised, value returned)
_api_request(resp, raise_on_error) ==
    LET swallow == [exc |-> NoExc, data |-> EmptyDict]
        throw(e) == [exc |-> e, data |-> EmptyDict]
    IN  CASE resp.kind = "ok" -> [exc |-> NoExc, data |-> resp.data]
          [] resp.kind = "ConnectionError" ->
                LET error_msg ==
                      IF resp.text = "Name or service not known"
                      THEN "Cannot connect: Host not found (check URL)"
                      ELSE IF resp.text = "Connection refused"
                      THEN "Cannot connect: Connection refused (is the service running?)"
                      ELSE "Cannot connect: " \o resp.text
                IN  IF raise_on_error
                    THEN throw(Raise("ServarrConnectionError", error_msg))
                    ELSE swallow
          [] resp.kind = "Timeout" ->
                IF raise_on_error
                THEN throw(Raise("ServarrConnectionError", "Cannot connect: Request timed out"))
                ELSE swallow
          [] resp.kind = "HTTPError" ->
                IF resp.status \in {401, 403}
                THEN IF raise_on_error
                     THEN throw(Raise("ServarrAuthenticationError",
                                      "Authentication failed: Invalid API key (HTTP "
                                        \o ToString(resp.status) \o ")"))
                     ELSE swallow
                ELSE IF raise_on_error
                     THEN throw(Raise("HTTPError", "HTTP " \o ToString(resp.status)))
                     ELSE swallow
          [] resp.kind = "RequestException" ->
                IF raise_on_error
                THEN throw(Raise("ServarrConnectionError", "Cannot connect: request failed"))
                ELSE swallow

(***************************************************************************)
(* App-type resolver                                                       *)
(***************************************************************************)
\* detect_app_type probing the v3 status endpoint before it looks at the
\* forced type
DetectAppTypeProbingFirst(self_app_type, v3, v1) ==
    LET P3 == "/api/v3/system/status"
        r3 == _api_request(v3, TRUE)
        app_name == Lower(Get(r3.data.v, "appName", ""))
    IN  IF r3.exc.type # "None"
        THEN [exc |-> r3.exc, value |-> "", probes |-> <<P3>>]
        ELSE IF self_app_type # ""
        THEN [exc |-> NoExc, value |-> Lower(self_app_type), probes |-> <<P3>>]
        ELSE IF app_name = ""
        THEN [exc |-> Raise("ValueError", "could not detect app type"),
              value |-> "", probes |-> <<P3>>]
        ELSE [exc |-> NoExc, value |-> app_name, probes |-> <<P3>>]

\* detect_app_type: self_app_type is the forced type ("" when the instance
\* has none: None and '' are both falsy), v3 and v1 are what the upstream
\* does to the two system-status probes.  The result carries the exception
\* raised, the value returned and the probes issued, in order.
detect_app_type(self_app_type, v3, v1) ==
    LET P3 == "/api/v3/system/status"
        P1 == "/api/v1/system/status"
        r3 == _api_request(v3, TRUE)
        r1 == _api_request(v1, TRUE)
        fromStatus(status, probes) ==
            LET app_name == Lower(Get(status.v, "appName", ""))
            IN  IF app_name = ""
                THEN [exc |-> Raise("ValueError", "could not detect app type"),
                      value |-> "", probes |-> probes]
                ELSE [exc |-> NoExc, value |-> app_name, probes |-> probes]
    IN  IF self_app_type # ""
        THEN [exc |-> NoExc, value |-> Lower(self_app_type), probes |-> << >>]
        ELSE IF r3.exc.type = "ServarrConnectionError"
        THEN IF r1.exc.type = "ServarrConnectionError"
             THEN [exc |-> Raise("ServarrConnectionError",
                                 "Cannot connect: Check URL and ensure service is running"),
                   value |-> "", probes |-> <<P3, P1>>]
             ELSE IF r1.exc.type # "None"
             THEN [exc |-> r1.exc, value |-> "", probes |-> <<P3, P1>>]
             ELSE fromStatus(r1.data, <<P3, P1>>)
        ELSE IF r3.exc.type = "ServarrAuthenticationError"
        THEN IF r1.exc.type \in {"ServarrConnectionError", "ServarrAuthenticationError"}
             THEN [exc |-> Raise("ServarrAuthenticationError",
                                 "Authentication failed: Check API key"),
                   value |-> "", probes |-> <<P3, P1>>]
             ELSE IF r1.exc.type # "None"
             THEN [exc |-> r1.exc, value |-> "", probes |-> <<P3, P1>>]
             ELSE fromStatus(r1.data, <<P3, P1>>)
        ELSE IF r3.exc.type # "None"
        THEN [exc |-> r3.exc, value |-> "", probes |-> <<P3>>]
        ELSE fromStatus(r3.data, <<P3>>)

\* _get_api_version with sonarr dropped from the v3 kinds
GetApiVersionRadarrOnly(kind) == IF kind \in {"radarr"} THEN "v3" ELSE "v1"

_get_api_version(kind) == IF kind \in {"sonarr", "radarr"} THEN "v3" ELSE "v1"

(***************************************************************************)
(* IEEE-754 double arithmetic on the quotient of two small integers, as    *)
(* CPython computes  (size - sizeleft) / size * 100  followed by int().    *)
(* A double is [sig |-> 53 bits, most significant first, pt |-> p] and     *)
(* stands for 0.sig * 2^p; both operations round to nearest, ties to even. *)
(* Intermediate integers stay below 2^31 for operands below 2^14.          *)
(***************************************************************************)
SigBits == 53
LimbBits == 18

RECURSIVE Pow2Mod(_, _)
\* 2^j mod b
Pow2Mod(j, b) ==
    IF j <= 13 THEN (2^j) % b ELSE (Pow2Mod(j - 13, b) * ((2^13) % b)) % b

\* the n low bits of x, most significant first
BitsOf(x, n) == [i \in 1..n |-> (x \div (2^(n - i))) % 2]

RECURSIVE BitLen(_)
BitLen(x) == IF x = 0 THEN 0 ELSE 1 + BitLen(x \div 2)

RECURSIVE BitsToInt(_)
BitsToInt(s) ==
    IF s = << >> THEN 0
    ELSE 2 * BitsToInt(SubSeq(s, 1, Len(s) - 1)) + s[Len(s)]

\* s + 1 on a bit string: the bits and the carry out
IncBits(s) ==
    LET zeros == {i \in 1..Len(s) : s[i] = 0}
        j == CHOOSE i \in zeros : \A k \in zeros : k <= i
    IN  IF zeros = {} THEN [bits |-> [i \in 1..Len(s) |-> 0], carry |-> 1]
        ELSE [bits |-> [i \in 1..Len(s) |-> IF i < j THEN s[i]
                                            ELSE IF i = j THEN 1 ELSE 0],
              carry |-> 0]

\* round a significand of at least SigBits bits to SigBits bits
RoundSig(bits, pt, stickyIn) ==
    LET m == SubSeq(bits, 1, SigBits)
        g == IF Len(bits) > SigBits THEN bits[SigBits + 1] ELSE 0
        sticky == stickyIn \/ \E i \in (SigBits + 2)..Len(bits) : bits[i] = 1
        up == g = 1 /\ (sticky \/ m[SigBits] = 1)
        inc == IncBits(m)
    IN  IF ~up THEN [sig |-> m, pt |-> pt]
        ELSE IF inc.carry = 1
        THEN [sig |-> <<1>> \o SubSeq(inc.bits, 1, SigBits - 1), pt |-> pt + 1]
        ELSE [sig |-> inc.bits, pt |-> pt]

\* a / b for integers a > 0, b > 0 (int.__truediv__ is correctly rounded):
\* with a/b = (aa/bb) * 2^(pt-1) and 1 <= aa/bb < 2, binary digit j of
\* aa/bb is floor(2 * ((aa * 2^(j-1)) mod bb) / bb)
FloatDiv(a, b) ==
    LET la == BitLen(a)
        lb == BitLen(b)
        a0 == IF la < lb THEN a * 2^(lb - la) ELSE a
        b0 == IF la > lb THEN b * 2^(la - lb) ELSE b
        aa == IF a0 < b0 THEN 2 * a0 ELSE a0
        bb == b0
        pt == (la - lb) + (IF a0 < b0 THEN 0 ELSE 1)
        R(j) == ((aa % bb) * Pow2Mod(j, bb)) % bb
        digit(j) == IF j = 0 THEN 1 ELSE IF 2 * R(j - 1) >= bb THEN 1 ELSE 0
    IN  RoundSig([i \in 1..(SigBits + 1) |-> digit(i - 1)], pt, R(SigBits) # 0)

\* x * k for a double x > 0 and an integer 0 < k < 2^7, limb by limb
FloatMul(x, k) ==
    LET B == 2^LimbBits
        l1 == BitsToInt(SubSeq(x.sig, 1, SigBits - 2 * LimbBits))
        l2 == BitsToInt(SubSeq(x.sig, SigBits - 2 * LimbBits + 1, SigBits - LimbBits))
        l3 == BitsToInt(SubSeq(x.sig, SigBits - LimbBits + 1, SigBits))
        p3 == l3 * k
        p2 == l2 * k + (p3 \div B)
        p1 == l1 * k + (p2 \div B)
        prod == BitsOf(p1, BitLen(p1)) \o BitsOf(p2 % B, LimbBits) \o BitsOf(p3 % B, LimbBits)
    IN  RoundSig(prod, x.pt + (Len(prod) - SigBits), FALSE)

\* int(x) for a double 0 < x < 2^31
FloatTrunc(x) == IF x.pt <= 0 THEN 0 ELSE BitsToInt(SubSeq(x.sig, 1, x.pt))

\* int(num / den * 100), den > 0
PercentInt(num, den) ==
    IF num = 0 THEN 0
    ELSE IF num > 0 THEN FloatTrunc(FloatMul(FloatDiv(num, den), 100))
    ELSE 0 - FloatTrunc(FloatMul(FloatDiv(0 - num, den), 100))

(***************************************************************************)
(* Field normalizers: queue                                                *)
(***************************************************************************)
\* str(n).zfill(2)
Zfill2(n) == IF n >= 0 /\ n < 10 THEN "0" \o ToString(n) ELSE ToString(n)

\* truthiness of record.get(key) for a nested dict
HasDict(record, k) == k \in DOMAIN record /\ DOMAIN record[k] # {}

\* f"{movie.get('year', '')}"
YearStr(movie) == IF "year" \in DOMAIN movie THEN ToString(movie.year) ELSE ""

_format_queue_item(record, kind) ==
    LET title ==
          IF kind = "sonarr" /\ HasDict(record, "series")
          THEN LET series == record.series
                   episode == Get(record, "episode", NoKeys)
                   season == Zfill2(Get(episode, "seasonNumber", 0))
                   ep_num == Zfill2(Get(episode, "episodeNumber", 0))
               IN  Get(series, "title", "Unknown") \o " [S" \o season \o "E" \o ep_num \o "]"
          ELSE IF kind = "radarr" /\ HasDict(record, "movie")
          THEN LET movie == record.movie
               IN  Get(movie, "title", "Unknown") \o " (" \o YearStr(movie) \o ")"
          ELSE IF kind = "lidarr" /\ HasDict(record, "artist")
          THEN LET artist == record.artist
                   album == Get(record, "album", NoKeys)
               IN  Get(artist, "artistName", "Unknown") \o " - "
                     \o Get(album, "title", "Unknown Album")
          ELSE IF kind = "readarr" /\ HasDict(record, "author")
          THEN LET author == record.author
                   book == Get(record, "book", NoKeys)
               IN  Get(author, "authorName", "Unknown") \o " - "
                     \o Get(book, "title", "Unknown Book")
          ELSE Get(record, "title", "Unknown")
        size == Get(record, "size", 0)
        sizeleft == Get(record, "sizeleft", 0)
        progress == IF size > 0 THEN PercentInt(size - sizeleft, size) ELSE 0
    IN  [title |-> title,
         quality |-> Get(Get(Get(record, "quality", NoKeys), "quality", NoKeys),
                         "name", "Unknown"),
         status |-> Get(record, "status", "unknown"),
         progress |-> progress,
         eta |-> Get(record, "timeleft", "pending")]

EmptySection == [count |-> 0, items |-> << >>]

\* fetch_queue reporting the number of items shown instead of the total
FetchQueueCountingShown(kind, resp) ==
    LET r == _api_request(resp, FALSE)
        records == Get(r.data.v, "records", << >>)
        shown == Take(records, 10)
    IN  IF r.exc.type # "None" THEN Raised(r.exc)
        ELSE IF ~Truthy(r.data) THEN Returned(EmptySection)
        ELSE Returned([count |-> Len(shown),
                       items |-> [k \in 1..Len(shown) |->
                                    _format_queue_item(shown[k], kind)]])

\* fetch_queue: resp is what the upstream does to the queue request
fetch_queue(kind, resp) ==
    LET r == _api_request(resp, FALSE)
        data == r.data
        records == Get(data.v, "records", << >>)
        shown == Take(records, 10)
    IN  IF r.exc.type # "None" THEN Raised(r.exc)
        ELSE IF ~Truthy(data) THEN Returned(EmptySection)
        ELSE Returned([count |-> Get(data.v, "totalRecords", Len(records)),
                       items |-> [k \in 1..Len(shown) |->
                                    _format_queue_item(shown[k], kind)]])

\* the URL of the queue request
QueueEndpoint(version) == "/api/" \o version \o "/queue"

(***************************************************************************)
(* Field normalizers: calendar                                             *)
(*                                                                         *)
(* A date-time string of a record is [d |-> the text before the first      *)
(* "T", rest |-> the text from that "T" on]; the string itself is          *)
(* d \o rest.  Optional output fields are PyNone or Str(text).             *)
(***************************************************************************)
PyNone == [py |-> "None"]
Str(text) == [py |-> "str", s |-> text]

\* record.get(key): None when the key is absent
GetDate(record, key) ==
    IF key \in DOMAIN record
    THEN [py |-> "date", d |-> record[key].d, rest |-> record[key].rest]
    ELSE PyNone

\* truthiness of an optional date-time string
DateTruthy(x) == x.py # "None" /\ (x.d \o x.rest) # ""

\* record.get(k1) or record.get(k2) or ...: the first truthy operand, and
\* the last operand when none is
RECURSIVE FirstDate(_, _)
FirstDate(record, keys) ==
    IF Len(keys) = 1 \/ DateTruthy(GetDate(record, Head(keys)))
    THEN GetDate(record, Head(keys))
    ELSE FirstDate(record, Tail(keys))

\* date(y, m, d).toordinal(), proleptic Gregorian calendar
Ordinal(y, m, d) ==
    LET yy == IF m <= 2 THEN y - 1 ELSE y
        mm == IF m <= 2 THEN m + 9 ELSE m - 3
        era == yy \div 400
        yoe == yy - era * 400
        doy == (153 * mm + 2) \div 5 + d - 1
        doe == yoe * 365 + yoe \div 4 - yoe \div 100 + doy
    IN  era * 146097 + doe - 305

\* the date texts of the model that datetime.strptime(text, '%Y-%m-%d')
\* accepts, with the date each one denotes; every other text raises ValueError
ParsableDates ==
    {[s |-> "2024-02-27", y |-> 2024, m |-> 2, d |-> 27],
     [s |-> "2024-02-28", y |-> 2024, m |-> 2, d |-> 28],
     [s |-> "2024-02-29", y |-> 2024, m |-> 2, d |-> 29],
     [s |-> "2024-03-01", y |-> 2024, m |-> 3, d |-> 1],
     [s |-> "2024-3-7",   y |-> 2024, m |-> 3, d |-> 7],
     [s |-> "2025-01-01", y |-> 2025, m |-> 1, d |-> 1]}

Strptime(text) ==
    IF \E p \in ParsableDates : p.s = text
    THEN LET p == CHOOSE q \in ParsableDates : q.s = text
         IN  [ok |-> TRUE, ordinal |-> Ordinal(p.y, p.m, p.d)]
    ELSE [ok |-> FALSE, ordinal |-> 0]

\* today is today.date().toordinal()
_format_calendar_item(record, kind, today) ==
    LET series == Get(record, "series", NoKeys)
        artist == Get(record, "artist", NoKeys)
        author == Get(record, "author", NoKeys)
        title ==
          CASE kind = "sonarr" ->
                 Get(series, "title", "Unknown") \o " [S"
                   \o Zfill2(Get(record, "seasonNumber", 0)) \o "E"
                   \o Zfill2(Get(record, "episodeNumber", 0)) \o "]"
            [] kind = "radarr" ->
                 Get(record, "title", "Unknown") \o " (" \o YearStr(record) \o ")"
            [] kind = "lidarr" ->
                 Get(artist, "artistName", "Unknown") \o " - " \o Get(record, "title", "Unknown")
            [] kind = "readarr" ->
                 Get(author, "authorName", "Unknown") \o " - " \o Get(record, "title", "Unknown")
            [] OTHER -> "Unknown"
        air_date_time ==
          CASE kind = "sonarr" -> FirstDate(record, <<"airDateUtc", "airDate">>)
            [] kind = "radarr" ->
                 FirstDate(record, <<"digitalRelease", "physicalRelease", "inCinemas">>)
            [] kind \in {"lidarr", "readarr"} -> FirstDate(record, <<"releaseDate">>)
            [] OTHER -> PyNone
        network ==
          IF kind = "sonarr" /\ "network" \in DOMAIN series
          THEN Str(series.network) ELSE PyNone
        parsed == Strptime(air_date_time.d)
    IN  [title |-> title,
         air_date |-> IF DateTruthy(air_date_time) THEN Str(air_date_time.d) ELSE PyNone,
         air_date_time |-> IF air_date_time.py = "None" THEN PyNone
                           ELSE Str(air_date_time.d \o air_date_time.rest),
         network |-> network,
         days_until |-> IF ~DateTruthy(air_date_time) THEN 0
                        ELSE IF parsed.ok THEN parsed.ordinal - today ELSE 0]

\* fetch_calendar: resp is what the upstream does to the calendar request
fetch_calendar(kind, resp, today) ==
    LET r == _api_request(resp, FALSE)
        data == r.data
        shown == Take(data.v, 10)
    IN  IF r.exc.type # "None" THEN Raised(r.exc)
        ELSE IF ~Truthy(data) THEN Returned(EmptySection)
        ELSE Returned([count |-> Len(data.v),
                       items |-> [k \in 1..Len(shown) |->
                                    _format_calendar_item(shown[k], kind, today)]])

CalendarEndpoint(version) == "/api/" \o version \o "/calendar"

(***************************************************************************)
(* Health                                                                  *)
(***************************************************************************)
\* fetch_health looking for an error in the first entry only
FetchHealthFirstEntryOnly(resp) ==
    LET r == _api_request(resp, FALSE)
        data == r.data
    IN  IF r.exc.type # "None" THEN Raised(r.exc)
        ELSE IF data.t # "list" THEN Returned([status |-> "ok"])
        ELSE IF ~Truthy(data) THEN Returned([status |-> "ok"])
        ELSE IF Get(data.v[1], "type", "") = "error" THEN Returned([status |-> "error"])
        ELSE Returned([status |-> "warning"])

\* fetch_health: resp is what the upstream does to the health request
fetch_health(resp) ==
    LET r == _api_request(resp, FALSE)
        data == r.data
    IN  IF r.exc.type # "None" THEN Raised(r.exc)
        ELSE IF data.t # "list" THEN Returned([status |-> "ok"])
        ELSE IF ~Truthy(data) THEN Returned([status |-> "ok"])
        ELSE IF \E k \in 1..Len(data.v) : Get(data.v[k], "type", "") = "error"
        THEN Returned([status |-> "error"])
        ELSE Returned([status |-> "warning"])

HealthEndpoint(version) == "/api/" \o version \o "/health"

(***************************************************************************)
(* Byte formatting and statistics                                          *)
(***************************************************************************)
Abs(n) == IF n < 0 THEN 0 - n ELSE n

\* f'{x:.1f}' for x = n / den with den a power of 1024 (the division by
\* 1024 is exact in binary floating point): correctly rounded, ties to even.
\* n * 10 stays below 2^31 for n below 2^27.
OneDecimal(n, den) ==
    LET a == Abs(n) * 10
        fl == a \div den
        rem == a % den
        tenths == IF 2 * rem > den THEN fl + 1
                  ELSE IF 2 * rem = den /\ fl % 2 = 1 THEN fl + 1
                  ELSE fl
    IN  (IF n < 0 THEN "-" ELSE "") \o ToString(tenths \div 10) \o "." \o ToString(tenths % 10)

Units == <<"B", "KB", "MB", "GB", "TB">>

RECURSIVE FormatLoop(_, _, _)
\* the for loop of _format_bytes at its k-th unit; den = 1024^(k-1)
FormatLoop(size, k, den) ==
    IF k > Len(Units) THEN OneDecimal(size, den) \o " PB"
    ELSE IF Abs(size) \div den < 1024 THEN OneDecimal(size, den) \o " " \o Units[k]
    ELSE FormatLoop(size, k + 1, den * 1024)

_format_bytes(size) == IF size = 0 THEN "--" ELSE FormatLoop(size, 1, 1)

RECURSIVE SumSeq(_)
SumSeq(q) == IF q = << >> THEN 0 ELSE Head(q) + SumSeq(Tail(q))

\* sum(s.get('statistics', {}).get(field, 0) for s in listing)
SumStatistic(listing, field) ==
    SumSeq([k \in 1..Len(listing) |-> Get(Get(listing[k], "statistics", NoKeys), field, 0)])

\* sum(1 for x in listing if test(x))
CountIf(listing, Test(_)) == Len(SelectSeq(listing, Test))

EmptyStats == NoKeys

_fetch_stats_sonarr(seriesResp, wantedResp) ==
    LET rs == <<_api_request(seriesResp, FALSE), _api_request(wantedResp, FALSE)>>
        series_data == rs[1].data
        wanted_data == rs[2].data
        total_episodes == SumStatistic(series_data.v, "totalEpisodeCount")
        episodes_on_disk == SumStatistic(series_data.v, "episodeFileCount")
        library_size == SumStatistic(series_data.v, "sizeOnDisk")
    IN  IF FirstRaised(rs).type # "None" THEN Raised(FirstRaised(rs))
        ELSE IF ~Truthy(series_data) THEN Returned(EmptyStats)
        ELSE Returned([total_series |-> Len(series_data.v),
                       total_episodes |-> total_episodes,
                       episodes_on_disk |-> episodes_on_disk,
                       episodes_missing |-> total_episodes - episodes_on_disk,
                       monitored_missing |-> Get(wanted_data.v, "totalRecords", 0),
                       library_size_bytes |-> library_size,
                       library_size_formatted |-> _format_bytes(library_size)])

_fetch_stats_radarr(movieResp, wantedResp) ==
    LET rs == <<_api_request(movieResp, FALSE), _api_request(wantedResp, FALSE)>>
        movie_data == rs[1].data
        wanted_data == rs[2].data
        hasFile(m) == Get(m, "hasFile", FALSE)
        movies_on_disk == CountIf(movie_data.v, hasFile)
        library_size == SumSeq([k \in 1..Len(movie_data.v) |->
                                  Get(movie_data.v[k], "sizeOnDisk", 0)])
    IN  IF FirstRaised(rs).type # "None" THEN Raised(FirstRaised(rs))
        ELSE IF ~Truthy(movie_data) THEN Returned(EmptyStats)
        ELSE Returned([total_movies |-> Len(movie_data.v),
                       movies_on_disk |-> movies_on_disk,
                       movies_missing |-> Len(movie_data.v) - movies_on_disk,
                       monitored_missing |-> Get(wanted_data.v, "totalRecords", 0),
                       library_size_bytes |-> library_size,
                       library_size_formatted |-> _format_bytes(library_size)])

_fetch_stats_lidarr(artistResp, wantedResp) ==
    LET rs == <<_api_request(artistResp, FALSE), _api_request(wantedResp, FALSE)>>
        artist_data == rs[1].data
        wanted_data == rs[2].data
        library_size == SumStatistic(artist_data.v, "sizeOnDisk")
    IN  IF FirstRaised(rs).type # "None" THEN Raised(FirstRaised(rs))
        ELSE IF ~Truthy(artist_data) THEN Returned(EmptyStats)
        ELSE Returned([total_artists |-> Len(artist_data.v),
                       total_albums |-> SumStatistic(artist_data.v, "albumCount"),
                       total_tracks |-> SumStatistic(artist_data.v, "trackCount"),
                       monitored_missing |-> Get(wanted_data.v, "totalRecords", 0),
                       library_size_bytes |-> library_size,
                       library_size_formatted |-> _format_bytes(library_size)])

\* (x or []) for a listing response
OrEmptyList(data) == IF Truthy(data) THEN data.v ELSE << >>

_fetch_stats_readarr(authorResp, bookResp, wantedResp) ==
    LET rs == <<_api_request(authorResp, FALSE), _api_request(bookResp, FALSE),
                _api_request(wantedResp, FALSE)>>
        author_data == rs[1].data
        book_data == rs[2].data
        wanted_data == rs[3].data
        onDisk(b) == Get(Get(b, "statistics", NoKeys), "bookFileCount", 0) > 0
        library_size == SumStatistic(OrEmptyList(author_data), "sizeOnDisk")
    IN  IF FirstRaised(rs).type # "None" THEN Raised(FirstRaised(rs))
        ELSE Returned([total_authors |-> IF Truthy(author_data) THEN Len(author_data.v) ELSE 0,
                       total_books |-> IF Truthy(book_data) THEN Len(book_data.v) ELSE 0,
                       books_on_disk |-> CountIf(OrEmptyList(book_data), onDisk),
                       monitored_missing |-> IF Truthy(wanted_data)
                                             THEN Get(wanted_data.v, "totalRecords", 0) ELSE 0,
                       library_size_bytes |-> library_size,
                       library_size_formatted |-> _format_bytes(library_size)])

_fetch_stats_prowlarr(indexerResp, statsResp) ==
    LET rs == <<_api_request(indexerResp, FALSE), _api_request(statsResp, FALSE)>>
        indexer_data == rs[1].data
        stats_data == rs[2].data
        enabled(i) == Get(i, "enable", FALSE)
        indexers == IF Truthy(stats_data) THEN Get(stats_data.v, "indexers", << >>) ELSE << >>
        total(field) == SumSeq([k \in 1..Len(indexers) |-> Get(indexers[k], field, 0)])
    IN  IF FirstRaised(rs).type # "None" THEN Raised(FirstRaised(rs))
        ELSE Returned([total_indexers |-> IF Truthy(indexer_data) THEN Len(indexer_data.v) ELSE 0,
                       enabled_indexers |-> CountIf(OrEmptyList(indexer_data), enabled),
                       total_grabs |-> total("numberOfGrabs"),
                       total_queries |-> total("numberOfQueries"),
                       failed_grabs |-> total("numberOfFailedGrabs"),
                       failed_queries |-> total("numberOfFailedQueries")])

\* the requests fetch_stats issues for a kind, in order
StatsEndpoints(kind) ==
    CASE kind = "sonarr"   -> <<"/api/v3/series", "/api/v3/wanted/missing">>
      [] kind = "radarr"   -> <<"/api/v3/movie", "/api/v3/wanted/missing">>
      [] kind = "lidarr"   -> <<"/api/v1/artist", "/api/v1/wanted/missing">>
      [] kind = "readarr"  -> <<"/api/v1/author", "/api/v1/book", "/api/v1/wanted/missing">>
      [] kind = "prowlarr" -> <<"/api/v1/indexer", "/api/v1/indexerstats">>
      [] OTHER             -> << >>

\* fetch_stats: resps are what the upstream does to the requests of
\* StatsEndpoints(kind), in order
fetch_stats(kind, resps) ==
    CASE kind = "sonarr"   -> _fetch_stats_sonarr(resps[1], resps[2])
      [] kind = "radarr"   -> _fetch_stats_radarr(resps[1], resps[2])
      [] kind = "lidarr"   -> _fetch_stats_lidarr(resps[1], resps[2])
      [] kind = "readarr"  -> _fetch_stats_readarr(resps[1], resps[2], resps[3])
      [] kind = "prowlarr" -> _fetch_stats_prowlarr(resps[1], resps[2])
      [] OTHER             -> Returned(EmptyStats)

(***************************************************************************)
(* Field normalizers: recently added                                       *)
(*                                                                         *)
(* The 'date' of a history record is [iso |-> whether                      *)
(* datetime.fromisoformat accepts the text, wall |-> the wall-clock time   *)
(* the text reads, in seconds, its UTC offset dropped]; now is the local   *)
(* wall-clock time in seconds.                                             *)
(***************************************************************************)
_calc_relative_time(date_str, now) ==
    IF date_str.py = "None" THEN ""
    ELSE IF ~date_str.iso THEN ""
    ELSE LET seconds == now - date_str.wall
             mins == seconds \div 60
             hours == seconds \div 3600
             days == seconds \div 86400
         IN  IF seconds < 60 THEN "Just now"
             ELSE IF seconds < 3600 THEN ToString(mins) \o " min ago"
             ELSE IF seconds < 86400
             THEN ToString(hours) \o " hour" \o (IF hours # 1 THEN "s" ELSE "") \o " ago"
             ELSE ToString(days) \o " day" \o (IF days # 1 THEN "s" ELSE "") \o " ago"

_format_recently_added_item(record, kind, now) ==
    LET title ==
          IF kind = "sonarr" /\ HasDict(record, "series")
          THEN LET series == record.series
                   episode == Get(record, "episode", NoKeys)
                   season == Zfill2(Get(episode, "seasonNumber", 0))
                   ep_num == Zfill2(Get(episode, "episodeNumber", 0))
               IN  Get(series, "title", "Unknown") \o " [S" \o season \o "E" \o ep_num \o "]"
          ELSE IF kind = "radarr" /\ HasDict(record, "movie")
          THEN LET movie == record.movie
               IN  Get(movie, "title", "Unknown") \o " (" \o YearStr(movie) \o ")"
          ELSE IF kind = "lidarr" /\ HasDict(record, "artist")
          THEN LET artist == record.artist
                   album == Get(record, "album", NoKeys)
               IN  Get(artist, "artistName", "Unknown") \o " - "
                     \o Get(album, "title", "Unknown Album")
          ELSE IF kind = "readarr" /\ HasDict(record, "author")
          THEN LET author == record.author
                   book == Get(record, "book", NoKeys)
               IN  Get(author, "authorName", "Unknown") \o " - "
                     \o Get(book, "title", "Unknown Book")
          ELSE Get(record, "sourceTitle", "Unknown")
        date == IF "date" \in DOMAIN record
                THEN [py |-> "str", iso |-> record.date.iso, wall |-> record.date.wall]
                ELSE PyNone
    IN  [title |-> title, time_ago |-> _calc_relative_time(date, now)]

\* fetch_recently_added counting the matching records before the cap of 10
FetchRecentlyAddedUncapped(kind, resp, now) ==
    LET r == _api_request(resp, FALSE)
        data == r.data
        records == Get(data.v, "records", << >>)
        isImport(h) == Get(h, "eventType", "") = "downloadFolderImported"
        imported == SelectSeq(records, isImport)
        shown == Take(imported, 6)
    IN  IF kind = "prowlarr" THEN Returned(EmptySection)
        ELSE IF r.exc.type # "None" THEN Raised(r.exc)
        ELSE IF ~Truthy(data) \/ Len(records) = 0 THEN Returned(EmptySection)
        ELSE Returned([count |-> Len(imported),
                       items |-> [k \in 1..Len(shown) |->
                                    _format_recently_added_item(shown[k], kind, now)]])

\* fetch_recently_added: for prowlarr no request is issued
fetch_recently_added(kind, resp, now) ==
    LET r == _api_request(resp, FALSE)
        data == r.data
        records == Get(data.v, "records", << >>)
        isImport(h) == Get(h, "eventType", "") = "downloadFolderImported"
        imported == Take(SelectSeq(records, isImport), 10)
        shown == Take(imported, 6)
    IN  IF kind = "prowlarr" THEN Returned(EmptySection)
        ELSE IF r.exc.type # "None" THEN Raised(r.exc)
        ELSE IF ~Truthy(data) \/ Len(records) = 0 THEN Returned(EmptySection)
        ELSE Returned([count |-> Len(imported),
                       items |-> [k \in 1..Len(shown) |->
                                    _format_recently_added_item(shown[k], kind, now)]])

HistoryEndpoints(kind, version) ==
    IF kind = "prowlarr" THEN << >> ELSE <<"/api/" \o version \o "/history">>

(***************************************************************************)
(* Instance collector                                                      *)
(***************************************************************************)
\* _get_timezone_abbrev on the zones of the model: no zone gives UTC, a
\* zone ZoneInfo knows gives its abbreviation, any other gives the name
_get_timezone_abbrev(tz) ==
    CASE tz = ""                 -> "UTC"
      [] tz = "America/New_York" -> "EST"
      [] tz = "Europe/Paris"     -> "CET"
      [] OTHER                   -> tz

\* the payload of calendar-only mode
MinimalPayload(kind, tz, utc, cal) ==
    [merge_variables |->
       [app_name |-> Capitalize(kind), app_type |-> kind, last_updated |-> utc,
        timezone |-> _get_timezone_abbrev(tz), calendar |-> cal]]

\* the full payload
FullPayload(kind, tz, utc, h, q, cal, st, ra) ==
    [merge_variables |->
       [app_name |-> Capitalize(kind), app_type |-> kind, last_updated |-> utc,
        timezone |-> _get_timezone_abbrev(tz), health |-> h, queue |-> q,
        calendar |-> cal, stats |-> st, recently_added |-> ra]]

\* send: post is what the webhook does to the POST
send(c, post) == IF c.dry_run \/ ~c.webhook THEN TRUE ELSE post.kind = "ok"

(***************************************************************************)
(* Bounds and inputs of the collection cycle                               *)
(***************************************************************************)
MaxInstances == 2

\* the clock of the cycle: today's ordinal, the local wall clock in seconds
\* and the UTC timestamp text
Today == Ordinal(2024, 2, 29)
NowSeconds == 100000
UtcNow == "2024-02-29T12:00:00Z"

\* per-instance configuration: forced type ("" for none), mode, webhook set
InstanceConfigs ==
    {[app_type |-> "",         calendar_only |-> FALSE, webhook |-> TRUE],
     [app_type |-> "",         calendar_only |-> TRUE,  webhook |-> FALSE],
     [app_type |-> "PROWLARR", calendar_only |-> FALSE, webhook |-> TRUE],
     [app_type |-> "plex",     calendar_only |-> TRUE,  webhook |-> FALSE]}

\* an optional key of a mapping (a key of the configuration file, a variable
\* of the environment): << >> when the key is absent, <<value>> when present
Absent == << >>
Present(value) == <<value>>
\* mapping.get(key, default) on an optional key
GetOr(opt, default) == IF opt = Absent THEN default ELSE opt[1]

\* what is shared by every collector of a run: the command line (--dry-run
\* and --timezone, '' by default), the timezone key of the configuration
\* file and TZ of the environment of the process
GlobalOptions ==
    {[args |-> [dry_run |-> FALSE, timezone |-> ""],
      timezone |-> Absent, environ |-> [TZ |-> Absent]],
     [args |-> [dry_run |-> FALSE, timezone |-> ""],
      timezone |-> Present(""), environ |-> [TZ |-> Absent]],
     [args |-> [dry_run |-> TRUE, timezone |-> "Europe/Paris"],
      timezone |-> Absent, environ |-> [TZ |-> Absent]],
     [args |-> [dry_run |-> TRUE, timezone |-> ""],
      timezone |-> Absent, environ |-> [TZ |-> Present("Europe/Paris")]],
     [args |-> [dry_run |-> TRUE, timezone |-> "America/New_York"],
      timezone |-> Present("Europe/Paris"), environ |-> [TZ |-> Absent]],
     [args |-> [dry_run |-> TRUE, timezone |-> "America/New_York"],
      timezone |-> Present(""), environ |-> [TZ |-> Present("Europe/Paris")]]}

InstanceName(i) == "instance" \o ToString(i)

\* ServarrCollector.__init__: the fields the cycle reads; the timezone is
\* the one given or, when that is empty, TZ of the environment, '' without
ServarrCollector(name, webhook, forced_type, calendar_only, timezone, dry_run, environ) ==
    [name |-> name, app_type |-> forced_type, calendar_only |-> calendar_only,
     webhook |-> webhook, dry_run |-> dry_run,
     timezone |-> IF timezone # "" THEN timezone ELSE GetOr(environ.TZ, "")]

\* create_collectors_from_config: one collector per configured instance;
\* the timezone key of the configuration, when present, replaces the one of
\* the command line
create_collectors_from_config(config, args, environ) ==
    LET global_timezone == GetOr(config.timezone, args.timezone)
    IN  [i \in 1..Len(config.instances) |->
           ServarrCollector(InstanceName(i), config.instances[i].webhook,
                            config.instances[i].app_type,
                            config.instances[i].calendar_only,
                            global_timezone, args.dry_run, environ)]

CollectorLists ==
    UNION {{create_collectors_from_config([instances |-> f, timezone |-> g.timezone],
                                          g.args, g.environ) :
              f \in [1..n -> InstanceConfigs], g \in GlobalOptions} :
             n \in 1..MaxInstances}

\* application names the status endpoint may report
AppNames == {"Sonarr", "Prowlarr", "Whisparr", ""}
StatusResponses ==
    Failures \cup {Ok(JDict([appName |-> n])) : n \in AppNames} \cup {Ok(EmptyDict)}

SampleQueueRecord(size, sizeleft) ==
    [title |-> "Release", size |-> size, sizeleft |-> sizeleft, status |-> "downloading",
     timeleft |-> "00:10:00", quality |-> [quality |-> [name |-> "HD"]],
     series |-> [title |-> "Show"], episode |-> [seasonNumber |-> 1, episodeNumber |-> 12]]
QueueResponses ==
    DataFailures \cup {Ok(JDict([totalRecords |-> 37,
                                 records |-> <<SampleQueueRecord(100, 71),
                                               SampleQueueRecord(0, 0)>>]))}

SampleCalendarRecord(d) ==
    [title |-> "Pilot", seasonNumber |-> 1, episodeNumber |-> 1,
     series |-> [title |-> "Show", network |-> "BBC"],
     airDateUtc |-> [d |-> d, rest |-> "T20:00:00Z"]]
CalendarResponses ==
    DataFailures \cup {Ok(JList(<<SampleCalendarRecord("2024-03-01")>>))}

HealthResponses ==
    DataFailures \cup {Ok(JList(<<[type |-> "warning"], [type |-> "error"]>>))}

ListingResponses ==
    DataFailures \cup {Ok(JList(<<[statistics |-> [totalEpisodeCount |-> 10, episodeFileCount |-> 8,
                                               sizeOnDisk |-> 2048],
                              enable |-> TRUE]>>))}
CounterResponses ==
    DataFailures \cup {Ok(JDict([totalRecords |-> 5,
                             indexers |-> <<[numberOfGrabs |-> 3, numberOfQueries |-> 9]>>]))}
StatsResponses(kind) ==
    LET n == Len(StatsEndpoints(kind))
    IN  IF n = 0 THEN {<< >>}
        ELSE IF n = 2 THEN {<<a, b>> : a \in ListingResponses, b \in CounterResponses}
        ELSE {<<a, b, c>> : a \in ListingResponses, b \in ListingResponses,
                            c \in CounterResponses}

SampleHistoryRecord(ev) ==
    [eventType |-> ev, sourceTitle |-> "Release", date |-> [iso |-> TRUE, wall |-> 96400]]
HistoryResponses ==
    DataFailures \cup {Ok(JDict([records |-> <<SampleHistoryRecord("grabbed"),
                                           SampleHistoryRecord("downloadFolderImported")>>]))}

PostOutcomes == {[kind |-> "ok"]} \cup DataFailures

(***************************************************************************)
(* Run orchestrator: run_collection, one action per step of the cycle      *)
(***************************************************************************)
UnsetSection == [count |-> 0 - 1, items |-> << >>]
UnsetHealth == [status |-> "unset"]
UnsetStats == [unset |-> TRUE]
UnsetPayload == [merge_variables |-> NoKeys]

\* a request as logged: its endpoint, whether the upstream answered 2xx and
\* the exception _api_request raised for it
Req(endpoint, resp, raise_on_error) ==
    [endpoint |-> endpoint, ok |-> resp.kind = "ok",
     raised |-> _api_request(resp, raise_on_error).exc.type]

Self == collectors[idx]

Init ==
    /\ collectors \in CollectorLists
    /\ api_version = [i \in 1..Len(collectors) |-> "None"]
    /\ idx = 1
    /\ pc = "collect"
    /\ app_type = ""
    /\ queue = UnsetSection
    /\ calendar = UnsetSection
    /\ health = UnsetHealth
    /\ stats = UnsetStats
    /\ payload = UnsetPayload
    /\ exc = NoExc
    /\ succeeded = << >>
    /\ failed = << >>
    /\ requests = << >>
    /\ attempts = [i \in 1..Len(collectors) |-> 0]
    /\ ret = FALSE
    /\ fin = [op |-> "none"]
    /\ fout = [op |-> "none"]

\* the locals of collect() go out of scope
ForgetLocals ==
    /\ app_type' = ""
    /\ queue' = UnsetSection
    /\ calendar' = UnsetSection
    /\ health' = UnsetHealth
    /\ stats' = UnsetStats
    /\ payload' = UnsetPayload
    /\ requests' = << >>

\* the for loop moves to the next collector, or to the summary
NextCollector ==
    /\ idx' = idx + 1
    /\ pc' = IF idx + 1 > Len(collectors) THEN "summary" ELSE "collect"

\* collect() starting the full sequence of fetches in calendar-only mode too
DetectAlwaysFull ==
    /\ pc = "collect"
    /\ \E v3 \in StatusResponses, v1 \in StatusResponses :
         LET r == detect_app_type(Self.app_type, v3, v1)
             resps == <<v3, v1>>
         IN  /\ requests' = [k \in 1..Len(r.probes) |-> Req(r.probes[k], resps[k], TRUE)]
             /\ attempts' = [attempts EXCEPT ![idx] = @ + 1]
             /\ IF r.exc.type # "None"
                THEN /\ exc' = r.exc
                     /\ pc' = "except"
                     /\ UNCHANGED <<app_type, api_version>>
                ELSE /\ app_type' = r.value
                     /\ api_version' = [api_version EXCEPT ![idx] = _get_api_version(r.value)]
                     /\ pc' = "fetch_queue"
                     /\ exc' = NoExc
    /\ UNCHANGED <<collectors, idx, queue, calendar, health, stats, payload,
                   succeeded, failed, ret, fin, fout>>

\* collect(): detect_app_type and _get_api_version
Detect ==
    /\ pc = "collect"
    /\ \E v3 \in StatusResponses, v1 \in StatusResponses :
         LET r == detect_app_type(Self.app_type, v3, v1)
             resps == <<v3, v1>>
         IN  /\ requests' = [k \in 1..Len(r.probes) |-> Req(r.probes[k], resps[k], TRUE)]
             /\ attempts' = [attempts EXCEPT ![idx] = @ + 1]
             /\ IF r.exc.type # "None"
                THEN /\ exc' = r.exc
                     /\ pc' = "except"
                     /\ UNCHANGED <<app_type, api_version>>
                ELSE /\ app_type' = r.value
                     /\ api_version' = [api_version EXCEPT ![idx] = _get_api_version(r.value)]
                     /\ pc' = IF Self.calendar_only THEN "fetch_calendar" ELSE "fetch_queue"
                     /\ exc' = NoExc
    /\ UNCHANGED <<collectors, idx, queue, calendar, health, stats, payload,
                   succeeded, failed, ret, fin, fout>>

FetchQueue ==
    /\ pc = "fetch_queue"
    /\ \E resp \in QueueResponses :
         LET r == fetch_queue(app_type, resp)
         IN  /\ requests' = Append(requests, Req(QueueEndpoint(api_version[idx]), resp, FALSE))
             /\ IF r.exc.type # "None"
                THEN exc' = r.exc /\ pc' = "except" /\ queue' = queue
                ELSE exc' = exc /\ pc' = "fetch_calendar" /\ queue' = r.value
    /\ UNCHANGED <<collectors, api_version, idx, app_type, calendar, health, stats,
                   payload, succeeded, failed, attempts, ret, fin, fout>>

\* fetch_calendar; in calendar-only mode the minimal payload is returned
FetchCalendar ==
    /\ pc = "fetch_calendar"
    /\ \E resp \in CalendarResponses :
         LET r == fetch_calendar(app_type, resp, Today)
         IN  /\ requests' = Append(requests,
                                   Req(CalendarEndpoint(api_version[idx]), resp, FALSE))
             /\ IF r.exc.type # "None"
                THEN exc' = r.exc /\ pc' = "except" /\ UNCHANGED <<calendar, payload>>
                ELSE /\ exc' = exc
                     /\ calendar' = r.value
                     /\ IF Self.calendar_only
                        THEN /\ payload' = MinimalPayload(app_type, Self.timezone, UtcNow,
                                                          r.value)
                             /\ pc' = "send"
                        ELSE /\ payload' = payload
                             /\ pc' = "fetch_health"
    /\ UNCHANGED <<collectors, api_version, idx, app_type, queue, health, stats,
                   succeeded, failed, attempts, ret, fin, fout>>

FetchHealth ==
    /\ pc = "fetch_health"
    /\ \E resp \in HealthResponses :
         LET r == fetch_health(resp)
         IN  /\ requests' = Append(requests, Req(HealthEndpoint(api_version[idx]), resp, FALSE))
             /\ IF r.exc.type # "None"
                THEN exc' = r.exc /\ pc' = "except" /\ health' = health
                ELSE exc' = exc /\ pc' = "fetch_stats" /\ health' = r.value
    /\ UNCHANGED <<collectors, api_version, idx, app_type, queue, calendar, stats,
                   payload, succeeded, failed, attempts, ret, fin, fout>>

FetchStats ==
    /\ pc = "fetch_stats"
    /\ \E resps \in StatsResponses(app_type) :
         LET r == fetch_stats(app_type, resps)
         IN  /\ requests' = requests \o [k \in 1..Len(resps) |->
                                           Req(StatsEndpoints(app_type)[k], resps[k], FALSE)]
             /\ IF r.exc.type # "None"
                THEN exc' = r.exc /\ pc' = "except" /\ stats' = stats
                ELSE exc' = exc /\ pc' = "fetch_recently_added" /\ stats' = r.value
    /\ UNCHANGED <<collectors, api_version, idx, app_type, queue, calendar, health,
                   payload, succeeded, failed, attempts, ret, fin, fout>>

\* fetch_recently_added, then the full payload is built and returned
FetchRecentlyAdded ==
    /\ pc = "fetch_recently_added"
    /\ \E resp \in HistoryResponses :
         LET r == fetch_recently_added(app_type, resp, NowSeconds)
             eps == HistoryEndpoints(app_type, api_version[idx])
         IN  /\ requests' = requests \o [k \in 1..Len(eps) |-> Req(eps[k], resp, FALSE)]
             /\ IF r.exc.type # "None"
                THEN exc' = r.exc /\ pc' = "except" /\ payload' = payload
                ELSE /\ exc' = exc
                     /\ pc' = "send"
                     /\ payload' = FullPayload(app_type, Self.timezone, UtcNow, health,
                                               queue, calendar, stats, r.value)
    /\ UNCHANGED <<collectors, api_version, idx, app_type, queue, calendar, health,
                   stats, succeeded, failed, attempts, ret, fin, fout>>

\* collector.send(payload) and the bookkeeping of its result
Send ==
    /\ pc = "send"
    /\ \E post \in PostOutcomes :
         IF send(Self, post)
         THEN /\ succeeded' = Append(succeeded, Self.name)
              /\ failed' = failed
         ELSE /\ failed' = Append(failed, <<Self.name, "Failed to send webhook">>)
              /\ succeeded' = succeeded
    /\ ForgetLocals
    /\ NextCollector
    /\ UNCHANGED <<collectors, api_version, exc, attempts, ret, fin, fout>>

\* the except clauses leaving the loop after recording the failure
ExceptAborting ==
    /\ pc = "except"
    /\ failed' = Append(failed, <<Self.name, exc.msg>>)
    /\ exc' = NoExc
    /\ ForgetLocals
    /\ idx' = idx + 1
    /\ pc' = "summary"
    /\ UNCHANGED <<collectors, api_version, succeeded, attempts, ret, fin, fout>>

\* the except clauses of run_collection: all three record the failure
Except ==
    /\ pc = "except"
    /\ failed' = Append(failed, <<Self.name, exc.msg>>)
    /\ exc' = NoExc
    /\ ForgetLocals
    /\ NextCollector
    /\ UNCHANGED <<collectors, api_version, succeeded, attempts, ret, fin, fout>>

\* the return value computed from the successes instead of the failures
ReturnAnySucceeded ==
    /\ pc = "summary"
    /\ ret' = (Len(succeeded) > 0)
    /\ pc' = "done"
    /\ UNCHANGED <<collectors, api_version, idx, app_type, queue, calendar, health,
                   stats, payload, exc, succeeded, failed, requests, attempts, fin, fout>>

\* the summary and the return value
Return ==
    /\ pc = "summary"
    /\ ret' = (Len(failed) = 0)
    /\ pc' = "done"
    /\ UNCHANGED <<collectors, api_version, idx, app_type, queue, calendar, health,
                   stats, payload, exc, succeeded, failed, requests, attempts, fin, fout>>

Next ==
    \/ Detect
    \/ FetchQueue
    \/ FetchCalendar
    \/ FetchHealth
    \/ FetchStats
    \/ FetchRecentlyAdded
    \/ Send
    \/ Except
    \/ Return

Spec == Init /\ [][Next]_vars

(***************************************************************************)
(* Normalizer harness: the queue and calendar normalizers applied to       *)
(* inputs drawn from bounded sets                                          *)
(***************************************************************************)
MaxRecords == 12
MaxSize == 6
MaxHealthEntries == 3

HarnessKinds == {"sonarr", "prowlarr"}

Sizes == ((0 - 1)..MaxSize) \cup {100}
SizeLefts == ((0 - MaxSize)..(2 * MaxSize)) \cup {42, 43, 71, 150}

\* queue records: size and sizeleft as the upstream may report them
QueueItemInputs ==
    {[op |-> "_format_queue_item", kind |-> "sonarr",
      record |-> SampleQueueRecord(sz, sl)] : sz \in Sizes, sl \in SizeLefts}
    \cup {[op |-> "_format_queue_item", kind |-> "sonarr",
           record |-> [title |-> "Release", size |-> sz]] : sz \in Sizes}
    \cup {[op |-> "_format_queue_item", kind |-> "radarr",
           record |-> [movie |-> [title |-> "Film", year |-> 1999], sizeleft |-> 5]]}

RecordsOfLength(n) == [k \in 1..n |-> SampleQueueRecord(100, k)]

\* queue pages: the total the upstream reports (or none) and the records
FetchQueueInputs ==
    {[op |-> "fetch_queue", kind |-> k,
      resp |-> Ok(JDict([totalRecords |-> t, records |-> RecordsOfLength(n)]))] :
        k \in HarnessKinds, t \in {0, 3, 37}, n \in 0..MaxRecords}
    \cup {[op |-> "fetch_queue", kind |-> k,
           resp |-> Ok(JDict([records |-> RecordsOfLength(n)]))] :
             k \in HarnessKinds, n \in 0..MaxRecords}
    \cup {[op |-> "fetch_queue", kind |-> k, resp |-> r] :
             k \in HarnessKinds, r \in Failures \cup {Ok(EmptyDict)}}

CalendarOfLength(n) ==
    [k \in 1..n |-> SampleCalendarRecord(IF k % 2 = 0 THEN "2024-03-01" ELSE "soon")]

FetchCalendarInputs ==
    {[op |-> "fetch_calendar", kind |-> k, resp |-> Ok(JList(CalendarOfLength(n)))] :
        k \in HarnessKinds, n \in 0..MaxRecords}
    \cup {[op |-> "fetch_calendar", kind |-> k, resp |-> r] :
             k \in HarnessKinds, r \in Failures \cup {Ok(EmptyDict)}}

\* the date texts a calendar record may carry: dates around today, texts
\* strptime rejects and the empty string
DateTexts == {"2024-02-28", "2024-02-29", "2024-03-01", "soon", "2024-13-01", ""}

\* calendar records: the date field parsable, unparsable, empty or missing
CalendarItemInputs ==
    {[op |-> "_format_calendar_item", kind |-> k,
      record |-> [SampleCalendarRecord(d) EXCEPT
                    !.airDateUtc.rest = IF d = "" THEN "" ELSE @]] :
        k \in HarnessKinds, d \in DateTexts}
    \cup {[op |-> "_format_calendar_item", kind |-> "sonarr",
           record |-> [title |-> "Pilot", series |-> [title |-> "Show"]]]}
    \cup {[op |-> "_format_calendar_item", kind |-> "radarr",
           record |-> [title |-> "Film", year |-> 1999,
                       digitalRelease |-> [d |-> "", rest |-> ""],
                       inCinemas |-> [d |-> d, rest |-> ""]]] : d \in DateTexts}

\* the event type of the k-th record of a history page, by pattern
EventPatterns == {"imports", "alternating", "grabs", "one in three"}
EventOf(pattern, k) ==
    CASE pattern = "imports" -> "downloadFolderImported"
      [] pattern = "alternating" ->
           IF k % 2 = 1 THEN "downloadFolderImported" ELSE "grabbed"
      [] pattern = "one in three" ->
           IF k % 3 = 0 THEN "downloadFolderImported" ELSE "downloadFailed"
      [] OTHER -> "grabbed"

HistoryOfLength(n, pattern) ==
    [k \in 1..n |-> [SampleHistoryRecord(EventOf(pattern, k)) EXCEPT
                       !.sourceTitle = "Release " \o ToString(k)]]

\* history pages: the records the upstream returns, and failed requests
FetchRecentlyAddedInputs ==
    {[op |-> "fetch_recently_added", kind |-> k,
      resp |-> Ok(JDict([records |-> HistoryOfLength(n, pat)]))] :
        k \in HarnessKinds, n \in 0..MaxRecords, pat \in EventPatterns}
    \cup {[op |-> "fetch_recently_added", kind |-> k, resp |-> r] :
             k \in HarnessKinds,
             r \in Failures \cup {Ok(EmptyDict), Ok(JDict([totalRecords |-> 4]))}}

\* health entries: an error, a warning, a notice and one without a type
HealthEntries == {[type |-> "error"], [type |-> "warning"], [type |-> "notice"],
                  [message |-> "no type"]}
HealthLists == UNION {[1..n -> HealthEntries] : n \in 0..MaxHealthEntries}

\* what the upstream may answer to a health request
HealthAnswers ==
    {Ok(JList(l)) : l \in HealthLists}
    \cup {Ok(EmptyDict), Ok(JDict([type |-> "error"]))} \cup Failures

\* a health call, and the call the same collector made before it
FetchHealthInputs ==
    {[op |-> "fetch_health", earlier |-> e, resp |-> r] :
        e \in {Ok(JList(<<[type |-> "error"]>>)), Ok(JList(<< >>)), TimeoutFailure},
        r \in HealthAnswers}

\* ages of an event in whole seconds, around every threshold
Ages == {0 - 100, 0, 45, 59, 60, 61, 119, 120, 3599, 3600, 3601, 7199, 7200,
         86399, 86400, 86401, 90000, 172799, 172800, 950000}

\* UTC offsets in seconds: of the timestamp text (Z is 0) and of the clock
\* of the host, whose local time datetime.now() reads
TextOffsets == {0, 7200}
HostOffsets == {0, 3600, 0 - 18000}

\* the timestamp of an event: the text reads the wall-clock time of the
\* event at the offset it is written with
TimestampOf(age, offset) == [py |-> "str", iso |-> TRUE, wall |-> NowSeconds - age + offset]

\* relative-time inputs: NowSeconds is the UTC time of the call
RelativeTimeInputs ==
    {[op |-> "_calc_relative_time", age |-> a, offset |-> e, host |-> h,
      date_str |-> TimestampOf(a, e)] : a \in Ages, e \in TextOffsets, h \in HostOffsets}
    \cup {[op |-> "_calc_relative_time", age |-> 0, offset |-> 0, host |-> h,
           date_str |-> d] :
             h \in HostOffsets,
             d \in {PyNone, [py |-> "str", iso |-> FALSE, wall |-> 0]}}

\* byte counts: zero, small ones and the neighbours of the unit changes
ByteCounts == {0, 1, 512, 1023, 1024, 1025, 1536, 10240, 1047552, 1048524, 1048525,
               1048575, 1048576, 1048577, 123456789}

FormatBytesInputs == {[op |-> "_format_bytes", size |-> b] : b \in ByteCounts}

NormInputs == QueueItemInputs \cup FetchQueueInputs \cup FetchCalendarInputs
              \cup CalendarItemInputs \cup FetchRecentlyAddedInputs
              \cup FetchHealthInputs \cup RelativeTimeInputs \cup FormatBytesInputs

NoResult == [op |-> "none"]

NormInit ==
    /\ fin \in NormInputs
    /\ fout = NoResult
    /\ collectors = << >>
    /\ api_version = << >>
    /\ idx = 0
    /\ pc = "harness"
    /\ app_type = ""
    /\ queue = UnsetSection
    /\ calendar = UnsetSection
    /\ health = UnsetHealth
    /\ stats = UnsetStats
    /\ payload = UnsetPayload
    /\ exc = NoExc
    /\ succeeded = << >>
    /\ failed = << >>
    /\ requests = << >>
    /\ attempts = << >>
    /\ ret = FALSE

ApplyFormatQueueItem ==
    /\ fin.op = "_format_queue_item"
    /\ fout = NoResult
    /\ fout' = [op |-> fin.op, value |-> _format_queue_item(fin.record, fin.kind)]
    /\ UNCHANGED <<collectors, api_version, idx, pc, app_type, queue, calendar, health,
                   stats, payload, exc, succeeded, failed, requests, attempts, ret, fin>>

ApplyFetchQueue ==
    /\ fin.op = "fetch_queue"
    /\ fout = NoResult
    /\ fout' = [op |-> fin.op, result |-> fetch_queue(fin.kind, fin.resp)]
    /\ UNCHANGED <<collectors, api_version, idx, pc, app_type, queue, calendar, health,
                   stats, payload, exc, succeeded, failed, requests, attempts, ret, fin>>

ApplyFetchCalendar ==
    /\ fin.op = "fetch_calendar"
    /\ fout = NoResult
    /\ fout' = [op |-> fin.op, result |-> fetch_calendar(fin.kind, fin.resp, Today)]
    /\ UNCHANGED <<collectors, api_version, idx, pc, app_type, queue, calendar, health,
                   stats, payload, exc, succeeded, failed, requests, attempts, ret, fin>>

ApplyFormatCalendarItem ==
    /\ fin.op = "_format_calendar_item"
    /\ fout = NoResult
    /\ fout' = [op |-> fin.op, value |-> _format_calendar_item(fin.record, fin.kind, Today)]
    /\ UNCHANGED <<collectors, api_version, idx, pc, app_type, queue, calendar, health,
                   stats, payload, exc, succeeded, failed, requests, attempts, ret, fin>>

ApplyFetchRecentlyAdded ==
    /\ fin.op = "fetch_recently_added"
    /\ fout = NoResult
    /\ fout' = [op |-> fin.op,
                result |-> fetch_recently_added(fin.kind, fin.resp, NowSeconds)]
    /\ UNCHANGED <<collectors, api_version, idx, pc, app_type, queue, calendar, health,
                   stats, payload, exc, succeeded, failed, requests, attempts, ret, fin>>

\* two consecutive fetch_health calls of one collector
ApplyFetchHealth ==
    /\ fin.op = "fetch_health"
    /\ fout = NoResult
    /\ fout' = [op |-> fin.op, earlier |-> fetch_health(fin.earlier),
                result |-> fetch_health(fin.resp)]
    /\ UNCHANGED <<collectors, api_version, idx, pc, app_type, queue, calendar, health,
                   stats, payload, exc, succeeded, failed, requests, attempts, ret, fin>>

\* _calc_relative_time called with now = datetime.now() of the host
ApplyCalcRelativeTime ==
    /\ fin.op = "_calc_relative_time"
    /\ fout = NoResult
    /\ fout' = [op |-> fin.op,
                value |-> _calc_relative_time(fin.date_str, NowSeconds + fin.host)]
    /\ UNCHANGED <<collectors, api_version, idx, pc, app_type, queue, calendar, health,
                   stats, payload, exc, succeeded, failed, requests, attempts, ret, fin>>

ApplyFormatBytes ==
    /\ fin.op = "_format_bytes"
    /\ fout = NoResult
    /\ fout' = [op |-> fin.op, value |-> _format_bytes(fin.size)]
    /\ UNCHANGED <<collectors, api_version, idx, pc, app_type, queue, calendar, health,
                   stats, payload, exc, succeeded, failed, requests, attempts, ret, fin>>

NormNext ==
    \/ ApplyFormatQueueItem
    \/ ApplyFetchQueue
    \/ ApplyFetchCalendar
    \/ ApplyFormatCalendarItem
    \/ ApplyFetchRecentlyAdded
    \/ ApplyFetchHealth
    \/ ApplyCalcRelativeTime
    \/ ApplyFormatBytes

SpecNorm == NormInit /\ [][NormNext]_vars

(***************************************************************************)
(* Properties                                                              *)
(***************************************************************************)
Kinds == {"sonarr", "radarr", "lidarr", "readarr", "prowlarr"}
StatusV3 == "/api/v3/system/status"
StatusV1 == "/api/v1/system/status"
ProbeErrors == {"ServarrConnectionError", "ServarrAuthenticationError"}

\* the number of times a name is recorded in the succeeded / failed lists
TimesSucceeded(name) == Cardinality({k \in 1..Len(succeeded) : succeeded[k] = name})
TimesFailed(name) == Cardinality({k \in 1..Len(failed) : failed[k][1] = name})

FailedRequest(endpoint) ==
    \E k \in 1..Len(requests) : requests[k].endpoint = endpoint /\ ~requests[k].ok
OkRequest(endpoint) ==
    \E k \in 1..Len(requests) : requests[k].endpoint = endpoint /\ requests[k].ok

\* the collector is in the middle of collect(), its kind resolved
Resolved == pc \in {"fetch_queue", "fetch_calendar", "fetch_health", "fetch_stats",
                    "fetch_recently_added", "send"}

\* C1: in run_collection collect is attempted exactly once for every
\* instance, in configured order, whatever the outcome of the instances
\* before it, and every instance that has been processed is recorded exactly
\* once, in exactly one of the succeeded / failed lists.
C1_EveryInstanceCollectedOnce ==
    /\ \A i \in 1..Len(collectors) :
         attempts[i] = IF i < idx \/ (i = idx /\ pc # "collect") THEN 1 ELSE 0
    /\ \A i \in 1..Len(collectors) :
         TimesSucceeded(collectors[i].name) + TimesFailed(collectors[i].name)
           = IF i < idx THEN 1 ELSE 0
    /\ Len(succeeded) + Len(failed) = idx - 1
    /\ pc \in {"summary", "done"} => idx = Len(collectors) + 1

\* a failed first instance followed by a second one collected and sent
C1_Witness ==
    /\ pc = "done"
    /\ Len(collectors) = 2
    /\ Len(failed) = 1 /\ failed[1][1] = InstanceName(1)
    /\ succeeded = <<InstanceName(2)>>
    /\ attempts[2] = 1

\* C2: run_collection returns true if and only if no instance failed in the
\* cycle, that is iff every instance was recorded as succeeded; one
\* resolution failure or one webhook send failure makes the result false.
C2_TrueIffNoFailure ==
    pc = "done" =>
        /\ ret <=> (Len(failed) = 0)
        /\ ret <=> (\A i \in 1..Len(collectors) : TimesSucceeded(collectors[i].name) = 1)

\* a cycle whose only failure is a webhook send failure returns false
C2_Witness ==
    /\ pc = "done"
    /\ ~ret
    /\ Len(collectors) = 2
    /\ Len(succeeded) = 1
    /\ Len(failed) = 1 /\ failed[1][2] = "Failed to send webhook"

\* C3: with no forced kind, when the v3 status probe fails with
\* ConnectionError (AuthenticationError), the v1 probe is attempted exactly
\* once afterwards, and if it fails too, in any way, the error raised to the
\* caller is of the same kind as the v3 failure.
C3_SecondFailureKeepsKind ==
    (Len(requests) >= 1 /\ requests[1].endpoint = StatusV3
       /\ requests[1].raised \in ProbeErrors) =>
        /\ Cardinality({k \in 1..Len(requests) : requests[k].endpoint = StatusV1}) = 1
        /\ requests[2].endpoint = StatusV1
        /\ (pc = "except" /\ requests[2].raised # "None") => exc.type = requests[1].raised

\* C4: kind resolution returns a kind or fails with ConnectionError,
\* AuthenticationError or the ValueError "could not detect app type"; no
\* other error kind escapes the resolver.
C4_ResolverErrorKinds ==
    pc = "except" =>
        exc.type \in {"ServarrConnectionError", "ServarrAuthenticationError", "ValueError"}

\* the case of C5: the v3 probe failed with AuthenticationError, the v1
\* probe succeeded and resolution returned a kind
AuthThenV1Resolved ==
    /\ Resolved
    /\ Len(requests) >= 2
    /\ requests[1].endpoint = StatusV3 /\ requests[1].raised = "ServarrAuthenticationError"
    /\ requests[2].endpoint = StatusV1 /\ requests[2].ok

\* C5 as stated: after AuthenticationError at v3 and a successful v1 probe
\* with a non-empty application name, the API version selected is v1
\* whatever the application name.
C5_AlwaysV1 == AuthThenV1Resolved => api_version[idx] = "v1"

\* the data-fetch endpoints of a kind at a version: queue, calendar, health,
\* the statistics of the kind and, except for prowlarr, history
DataEndpoints(kind, version) ==
    {QueueEndpoint(version), CalendarEndpoint(version), HealthEndpoint(version)}
    \cup {StatsEndpoints(kind)[k] : k \in 1..Len(StatsEndpoints(kind))}
    \cup {HistoryEndpoints(kind, version)[k] : k \in 1..Len(HistoryEndpoints(kind, version))}

\* C5 (amended): after AuthenticationError at v3 and a successful v1 probe
\* with a non-empty application name, resolution succeeds and the API
\* version selected, used by every later data fetch, is the one of the
\* resolved kind: v3 for sonarr and radarr, v1 for every other name.
C5_VersionOfResolvedKind ==
    AuthThenV1Resolved =>
        /\ app_type # ""
        /\ api_version[idx] = IF app_type \in {"sonarr", "radarr"} THEN "v3" ELSE "v1"
        /\ \A k \in 3..Len(requests) :
             requests[k].endpoint \in DataEndpoints(app_type, api_version[idx])

\* the payload is ready after an AuthenticationError at v3 and a v1 success
C5_Witness ==
    /\ AuthThenV1Resolved
    /\ pc = "send"
    /\ Len(requests) > 2
    /\ app_type = "prowlarr"
    /\ api_version[idx] = "v1"

\* C6: the kind is a closed enumeration: whatever the forced type or the
\* application name reported upstream, the resolved kind and the app_type
\* written into the payload are one of sonarr, radarr, lidarr, readarr,
\* prowlarr.
C6_KindClosed ==
    Resolved =>
        /\ app_type \in Kinds
        /\ pc = "send" => payload.merge_variables.app_type \in Kinds

FullKeys == {"app_name", "app_type", "last_updated", "timezone", "health", "queue",
             "calendar", "stats", "recently_added"}

\* C7: data fetches issued after a successful kind resolution never make
\* collect raise, whichever of them fail; the payload is complete, every
\* failed list section is exactly {count: 0, items: []} and a section whose
\* fetch succeeded is what its own response gives.
C7_FailedFetchesDegrade ==
    /\ pc = "except" =>
         \A k \in 1..Len(requests) : requests[k].endpoint \in {StatusV3, StatusV1}
    /\ pc = "send" =>
         LET mv == payload.merge_variables
             v == api_version[idx]
             okOf(R) == {r \in R : r.kind = "ok"}
         IN  /\ FailedRequest(CalendarEndpoint(v)) => mv.calendar = EmptySection
             /\ OkRequest(CalendarEndpoint(v)) =>
                  mv.calendar \in {fetch_calendar(app_type, r, Today).value :
                                     r \in okOf(CalendarResponses)}
             /\ ~Self.calendar_only =>
                  /\ DOMAIN mv = FullKeys
                  /\ FailedRequest(QueueEndpoint(v)) => mv.queue = EmptySection
                  /\ FailedRequest("/api/" \o v \o "/history") =>
                       mv.recently_added = EmptySection
                  /\ OkRequest(QueueEndpoint(v)) =>
                       mv.queue \in {fetch_queue(app_type, r).value :
                                       r \in okOf(QueueResponses)}
                  /\ OkRequest("/api/" \o v \o "/history") =>
                       mv.recently_added \in
                         {fetch_recently_added(app_type, r, NowSeconds).value :
                            r \in okOf(HistoryResponses)}

\* a payload whose queue and history fetches failed and whose calendar
\* fetch succeeded
C7_Witness ==
    /\ pc = "send"
    /\ ~Self.calendar_only
    /\ FailedRequest(QueueEndpoint(api_version[idx]))
    /\ FailedRequest("/api/" \o api_version[idx] \o "/history")
    /\ OkRequest(CalendarEndpoint(api_version[idx]))
    /\ payload.merge_variables.queue = EmptySection
    /\ payload.merge_variables.recently_added = EmptySection
    /\ payload.merge_variables.calendar.count = 1

\* C8: counts are not reduced by display truncation: the queue count is the
\* total the upstream reports (the number of records returned when it
\* reports none) and the calendar count is the number of records returned,
\* while the items are the first min(10, records returned).
C8_CountsNotTruncated ==
    /\ (fout.op = "fetch_queue" /\ fin.resp.kind = "ok" /\ Truthy(fin.resp.data)) =>
         LET d == fin.resp.data.v
         IN  /\ fout.result.exc = NoExc
             /\ fout.result.value.count =
                  IF "totalRecords" \in DOMAIN d THEN d.totalRecords ELSE Len(d.records)
             /\ Len(fout.result.value.items) = Min(10, Len(d.records))
    /\ (fout.op = "fetch_calendar" /\ fin.resp.kind = "ok" /\ fin.resp.data.t = "list") =>
         /\ fout.result.exc = NoExc
         /\ fout.result.value.count = Len(fin.resp.data.v)
         /\ Len(fout.result.value.items) = Min(10, Len(fin.resp.data.v))

\* 37 records upstream, more than ten returned: count 37 and ten items
C8_Witness ==
    /\ fout.op = "fetch_queue"
    /\ fin.resp.kind = "ok"
    /\ Truthy(fin.resp.data)
    /\ Len(fin.resp.data.v.records) > 10
    /\ fout.result.value.count = 37
    /\ Len(fout.result.value.items) = 10

\* C9: for every queue record, 0 <= progress <= 100 when size > 0, whatever
\* sizeleft is (missing, greater than size, negative), and progress = 0
\* when size = 0.
C9_ProgressInRange ==
    fout.op = "_format_queue_item" =>
        LET size == Get(fin.record, "size", 0)
        IN  /\ size > 0 => (0 <= fout.value.progress /\ fout.value.progress <= 100)
            /\ size = 0 => fout.value.progress = 0

\* C10: for a prowlarr instance the queue, calendar and recently_added
\* sections of the payload are each exactly {count: 0, items: []}, whatever
\* the upstream answers to the requests of the collector.
C10_ProwlarrSectionsEmpty ==
    (pc = "send" /\ app_type = "prowlarr" /\ ~Self.calendar_only) =>
        /\ payload.merge_variables.queue = EmptySection
        /\ payload.merge_variables.calendar = EmptySection
        /\ payload.merge_variables.recently_added = EmptySection

\* the date fields _format_calendar_item consults for a kind, in order
DateKeys(kind) ==
    CASE kind = "sonarr" -> <<"airDateUtc", "airDate">>
      [] kind = "radarr" -> <<"digitalRelease", "physicalRelease", "inCinemas">>
      [] kind \in {"lidarr", "readarr"} -> <<"releaseDate">>
      [] OTHER -> << >>

\* the date field selected for a record of a kind
SelectedDate(record, kind) ==
    IF DateKeys(kind) = << >> THEN PyNone ELSE FirstDate(record, DateKeys(kind))

\* C11: for every calendar record whose selected date field is missing or
\* does not parse as a YYYY-MM-DD date, the formatted item is emitted with
\* days_until = 0 and with air_date and air_date_time both null or empty.
C11_BadDateGivesNullDates ==
    fout.op = "_format_calendar_item" =>
        LET sel == SelectedDate(fin.record, fin.kind)
            bad == ~DateTruthy(sel) \/ ~Strptime(sel.d).ok
        IN  bad => /\ fout.value.days_until = 0
                   /\ fout.value.air_date \in {PyNone, Str("")}
                   /\ fout.value.air_date_time \in {PyNone, Str("")}

\* the records of a history response, none when the request failed
HistoryRecordsOf(resp) ==
    IF resp.kind = "ok" THEN Get(resp.data.v, "records", << >>) ELSE << >>

\* the records of a history response whose event is a completed import
IsCompletedImport(h) == Get(h, "eventType", "") = "downloadFolderImported"
MatchingRecords(resp) == SelectSeq(HistoryRecordsOf(resp), IsCompletedImport)

\* C12: over any history page the collector fetches, only the records of
\* completed imports are kept, in upstream order; the count is min(10,
\* matching records) and the items are the first min(6, matching records),
\* so count <= 10, len(items) <= 6 and len(items) <= count.
C12_RecentlyAddedCaps ==
    (fout.op = "fetch_recently_added" /\ HistoryEndpoints(fin.kind, "v3") # << >>) =>
        LET matching == MatchingRecords(fin.resp)
            section == fout.result.value
        IN  /\ fout.result.exc = NoExc
            /\ section.count = Min(10, Len(matching))
            /\ Len(section.items) = Min(6, Len(matching))
            /\ \A j \in 1..Len(section.items) :
                 section.items[j].title = matching[j].sourceTitle
            /\ section.count <= 10 /\ Len(section.items) <= 6
            /\ Len(section.items) <= section.count

\* a page with more than ten completed imports among other events
C12_Witness ==
    /\ fout.op = "fetch_recently_added"
    /\ fin.kind = "sonarr"
    /\ Len(MatchingRecords(fin.resp)) > 10
    /\ fout.result.value.count = 10
    /\ Len(fout.result.value.items) = 6
    /\ fout.result.value.items[6].title = "Release 6"

\* the entries of a health response when it is a list
IsHealthList(resp) == resp.kind = "ok" /\ resp.data.t = "list"
HasErrorEntry(resp) ==
    \E k \in 1..Len(resp.data.v) :
        "type" \in DOMAIN resp.data.v[k] /\ resp.data.v[k].type = "error"

\* C13: the health status depends on the health response alone: a non-list
\* or an empty list gives ok, a list with an entry of type error gives
\* error wherever the entry is, any other non-empty list gives warning;
\* the call before it does not matter.
C13_HealthOfResponse ==
    fout.op = "fetch_health" =>
        /\ fout.result.exc = NoExc
        /\ fout.result.value.status \in {"ok", "error", "warning"}
        /\ fout.result.value.status =
             IF ~IsHealthList(fin.resp) \/ fin.resp.data.v = << >> THEN "ok"
             ELSE IF HasErrorEntry(fin.resp) THEN "error"
             ELSE "warning"

\* an error entry in last position, after a call that reported ok
C13_Witness ==
    /\ fout.op = "fetch_health"
    /\ fout.earlier.value.status = "ok"
    /\ IsHealthList(fin.resp)
    /\ Len(fin.resp.data.v) = 3
    /\ fin.resp.data.v[1] = [type |-> "warning"]
    /\ fin.resp.data.v[3] = [type |-> "error"]
    /\ fout.result.value.status = "error"

MinimalKeys == {"app_name", "app_type", "last_updated", "timezone", "calendar"}

\* the requests of the current collector to an endpoint
RequestsTo(endpoint) == {k \in 1..Len(requests) : requests[k].endpoint = endpoint}

\* a collector in calendar-only mode is being processed
InCalendarOnly == idx <= Len(collectors) /\ Self.calendar_only

\* C14: in calendar-only mode a cycle issues only the kind-resolution
\* probes, if any, and a single calendar request, never a health, queue,
\* history, wanted/missing or library-listing request, and the payload's
\* merge_variables has exactly the keys app_name, app_type, last_updated,
\* timezone and calendar.
C14_CalendarOnlyRequests ==
    InCalendarOnly =>
        /\ \A k \in 1..Len(requests) :
             \/ k <= 2 /\ requests[k].endpoint \in {StatusV3, StatusV1}
                       /\ Self.app_type = ""
             \/ k = Len(requests) /\ pc \in {"send", "except"}
                /\ requests[k].endpoint = CalendarEndpoint(api_version[idx])
        /\ pc = "send" =>
             /\ Cardinality(RequestsTo(CalendarEndpoint(api_version[idx]))) = 1
             /\ DOMAIN payload.merge_variables = MinimalKeys
        /\ pc \notin {"fetch_queue", "fetch_health", "fetch_stats", "fetch_recently_added"}

\* a calendar-only payload after two probes and the calendar request
C14_Witness ==
    /\ InCalendarOnly
    /\ pc = "send"
    /\ Len(requests) = 3
    /\ requests[1].endpoint = StatusV3 /\ requests[2].endpoint = StatusV1
    /\ requests[3].endpoint = CalendarEndpoint(api_version[idx])
    /\ payload.merge_variables.calendar.count = 1

\* "N unit ago", the unit singular exactly when N = 1
Ago(n, unit) == ToString(n) \o " " \o unit \o (IF n = 1 THEN "" ELSE "s") \o " ago"

\* C15: an event whose age is s whole seconds renders "Just now" for
\* s < 60, "N min ago" with N = s div 60 below an hour, "N hour(s) ago"
\* with N = s div 3600 below a day and "N day(s) ago" with N = s div 86400
\* from a day on; a missing or unparsable timestamp renders "".
C15_RelativeTimeOfAge ==
    fout.op = "_calc_relative_time" =>
        LET s == fin.age
        IN  fout.value =
              IF fin.date_str.py = "None" THEN ""
              ELSE IF ~fin.date_str.iso THEN ""
              ELSE IF s < 60 THEN "Just now"
              ELSE IF s < 3600 THEN ToString(s \div 60) \o " min ago"
              ELSE IF s < 86400 THEN Ago(s \div 3600, "hour")
              ELSE Ago(s \div 86400, "day")

\* the renderings "m.d unit" of a magnitude from 0.0 to 1023.9
RenderingsBelow1024 ==
    {ToString(m) \o "." \o ToString(d) \o " " \o u :
        m \in 0..1023, d \in 0..9, u \in {"B", "KB", "MB", "GB", "TB", "PB"}}

\* C16: format(0) is "--" and for every byte count b > 0 the magnitude
\* rendered with one decimal place, in the unit chosen among B, KB, MB, GB,
\* TB and PB, never exceeds 1023.9.
C16_RenderedBelow1024 ==
    fout.op = "_format_bytes" =>
        /\ fin.size = 0 => fout.value = "--"
        /\ fin.size > 0 => fout.value \in RenderingsBelow1024

\* the collector of a name, and whether its kind is forced
Forced(c) == c.app_type # ""
CollectorNamed(name) == CHOOSE c \in {collectors[i] : i \in 1..Len(collectors)} : c.name = name
InForced == idx <= Len(collectors) /\ Forced(Self)

\* C17: for an instance whose kind is forced, kind resolution issues no
\* system-status request and the cycle does not raise; when every upstream
\* request fails, collect still returns the full payload with health ok
\* and queue, calendar and recently_added empty, the instance is recorded
\* as succeeded unless the webhook send fails, and run_collection returns
\* true when nothing failed; an upstream connectivity or authentication
\* failure is recorded as an instance failure only for an unforced kind.
C17_ForcedKindNeverFails ==
    /\ InForced =>
         /\ RequestsTo(StatusV3) = {} /\ RequestsTo(StatusV1) = {}
         /\ pc # "except"
         /\ (pc = "send" /\ ~Self.calendar_only
               /\ \A k \in 1..Len(requests) : ~requests[k].ok) =>
              LET mv == payload.merge_variables
              IN  /\ DOMAIN mv = FullKeys
                  /\ mv.health = [status |-> "ok"]
                  /\ mv.queue = EmptySection
                  /\ mv.calendar = EmptySection
                  /\ mv.recently_added = EmptySection
    /\ \A k \in 1..Len(failed) :
         Forced(CollectorNamed(failed[k][1])) =>
            /\ failed[k][2] = "Failed to send webhook"
            /\ CollectorNamed(failed[k][1]).webhook
            /\ ~CollectorNamed(failed[k][1]).dry_run
    /\ \A i \in 1..Len(collectors) :
         (i < idx /\ Forced(collectors[i]) /\ TimesFailed(collectors[i].name) = 0) =>
            TimesSucceeded(collectors[i].name) = 1
    /\ (pc = "done" /\ failed = << >>) => ret

\* a second forced instance whose five requests all failed, its payload
\* ready, after a first forced instance recorded as succeeded
C17_Witness ==
    /\ InForced
    /\ idx = 2
    /\ Forced(collectors[1])
    /\ succeeded = <<InstanceName(1)>>
    /\ pc = "send"
    /\ ~Self.calendar_only
    /\ Len(requests) = 5
    /\ \A k \in 1..Len(requests) : ~requests[k].ok
    /\ payload.merge_variables.health = [status |-> "ok"]

====
